---- MODULE Spec2Model ----
(***************************************************************************)
(* Model of mullvad_wrapper/mullvad.py: the Mullvad class, a stateless     *)
(* wrapper that runs the "mullvad" command line client and parses what it  *)
(* prints.                                                                 *)
(*                                                                         *)
(* Text.  A text is the non-empty sequence of its lines, as split at "\n"  *)
(* ("a\n" is <<a, empty>>, "" is <<empty>>).  A line is a number of        *)
(* leading tab characters followed by words separated by single spaces.    *)
(* A word is an atom; what the code asks about the characters of a word    *)
(* (its lower case, a substring, the place of its first ':', a character   *)
(* class of a regular expression) is tabulated below for every word the    *)
(* sample lines use.  No word holds a line boundary or white space.        *)
(* The degree sign of a coordinate is written "d" ("57.70dN,").            *)
(***************************************************************************)
EXTENDS Integers, Sequences, FiniteSets, TLC

VARIABLES
    pc,           \* "idle", "relay_loop" (inside the for loop of relay_list), "done"
    op,           \* the public operation called
    arg,          \* its argument
    output,       \* stdout of the external command, as a sequence of lines
    exit_code,    \* exit code of the external command
    invocations,  \* the argument vectors handed to subprocess.run by this call
    result,       \* what the call returned or raised
    idx,          \* relay_list: index of the line the loop is at
    country,      \* relay_list: local variable country
    city,         \* relay_list: local variable city
    relays        \* relay_list: local variable relays

vars == <<pc, op, arg, output, exit_code, invocations, result, idx, country, city, relays>>

----------------------------------------------------------------------------
(* Bounds of the model *)

MaxRelayLines == 4
MaxStatusLines == 3
MaxSmallLines == 3
MaxAccountLines == 3

----------------------------------------------------------------------------
(* Python values *)

None == [isNone |-> TRUE]
Some(v) == [isNone |-> FALSE, val |-> v]

Returned(v) == [kind |-> "return", value |-> v]
Raised(e) == [kind |-> "raise", exc |-> e]
NoResult == [kind |-> "none"]

\* class MullvadError(Exception); class FailedToParseOutput(MullvadError)
IsMullvadError(e) == e \in {"MullvadError", "FailedToParseOutput"}

----------------------------------------------------------------------------
(* Lines and texts *)

Line(t, ws) == [tabs |-> t, toks |-> ws]
EmptyLine == Line(0, <<>>)

\* str.strip() of a line is its words; "not line.strip()"
IsBlank(line) == line.toks = <<>>

\* len(line[: len(line) - len(line.lstrip("\t"))])
LeadingTabs(line) == line.tabs

\* str.splitlines(): the segments between line breaks, without the empty
\* segment that follows a final line break
SplitLines(text) ==
    IF text[Len(text)] = EmptyLine THEN SubSeq(text, 1, Len(text) - 1) ELSE text

RECURSIVE DropLeadingBlank(_)
DropLeadingBlank(ls) ==
    IF ls = <<>> THEN <<>>
    ELSE IF IsBlank(ls[1]) THEN DropLeadingBlank(Tail(ls))
    ELSE <<Line(0, ls[1].toks)>> \o Tail(ls)

RECURSIVE DropTrailingBlank(_)
DropTrailingBlank(ls) ==
    IF ls = <<>> THEN <<>>
    ELSE IF IsBlank(ls[Len(ls)]) THEN DropTrailingBlank(SubSeq(ls, 1, Len(ls) - 1))
    ELSE ls

\* str.strip() of a text: the white space (tabs, spaces, line breaks) at both
\* ends goes; a text of white space only becomes "", here <<EmptyLine>>
StripText(text) ==
    LET s == DropTrailingBlank(DropLeadingBlank(text))
    IN IF s = <<>> THEN <<EmptyLine>> ELSE s

\* Sequences of length 1..n over a set
SeqsUpTo(S, n) == UNION {[1..k -> S] : k \in 1..n}

----------------------------------------------------------------------------
(* Words: what the regular expressions of relay_list ask of a word *)

\* \w+
WordChars == {"Sweden", "Albania", "Gothenburg", "Tirana", "WireGuard", "OpenVPN",
              "hosted", "by", "31173", "iRegister", "to", "in", "Connected",
              "Connecting", "Disconnected", "disconnected", "Location", "data",
              "unavailable", "Network", "traffic", "will", "be", "allowed",
              "blocked", "Relay", "offline"}

\* \(([a-z]+)\) : the word and its group
ParenCode == ("(se)" :> "se") @@ ("(al)" :> "al") @@ ("(got)" :> "got") @@ ("(tia)" :> "tia")

\* [\w\,\[\] ]+ without the space
CityNameChars == WordChars \cup {"Gothenburg,", "[Drottninggatan]"}

\* \-?\d+\.\d+\°N\,  and  \-?\d+\.\d+\°W
Latitude == {"57.70dN,", "41.32dN,"}
Longitude == {"11.97dW", "-19.81dW"}

\* [a-z0-9\-]+
HostnameChars == {"se-got-wg-001", "al-tia-001", "31173", "to", "in", "by", "hosted",
                  "disconnected", "data", "unavailable", "traffic", "will", "be",
                  "allowed", "blocked", "offline"}

\* \(([0-9\.]+)\) , \(([0-9\.]+),  and  ([0-9a-f\:]+)\) : the word and its group
Ipv4Alone == ("(31.171.153.66)" :> "31.171.153.66")
Ipv4Open == ("(185.213.154.68," :> "185.213.154.68")
Ipv6Close == ("2a03:1b20:5:f011::a01f)" :> "2a03:1b20:5:f011::a01f")

\* ([a-zA-Z]+)\, : the word and its group
ProtocolComma == ("WireGuard," :> "WireGuard") @@ ("OpenVPN," :> "OpenVPN")

\* [a-zA-Z0-9]+
ProviderChars == WordChars

\* \(((?:rented)|(?:Mullvad-owned))\) : the word and its group
OwnershipParen == ("(rented)" :> "rented") @@ ("(Mullvad-owned)" :> "Mullvad-owned")

AllIn(ws, S) == \A k \in 1..Len(ws) : ws[k] \in S

----------------------------------------------------------------------------
(* The line parsers of relay_list.  Each gives [ok |-> TRUE, groups |-> m.groups()]
   or [ok |-> FALSE], on which the code raises FailedToParseOutput. *)

NoMatch == [ok |-> FALSE]
Match(g) == [ok |-> TRUE, groups |-> g]

\* ^([\w ]+) \(([a-z]+)\)$ on line.strip()
ParseRelayListCountryLine(line) ==
    LET ws == line.toks
        n == Len(ws)
    IN IF n >= 2 /\ ws[n] \in DOMAIN ParenCode /\ AllIn(SubSeq(ws, 1, n - 1), WordChars)
       THEN Match(<<SubSeq(ws, 1, n - 1), ParenCode[ws[n]]>>)
       ELSE NoMatch

\* ^([\w\,\[\] ]+) \(([a-z]+)\) \@ (\-?\d+\.\d+\°N\, \-?\d+\.\d+\°W)$ on line.strip()
ParseRelayListCityLine(line) ==
    LET ws == line.toks
        n == Len(ws)
    IN IF /\ n >= 5
          /\ ws[n] \in Longitude
          /\ ws[n - 1] \in Latitude
          /\ ws[n - 2] = "@"
          /\ ws[n - 3] \in DOMAIN ParenCode
          /\ AllIn(SubSeq(ws, 1, n - 4), CityNameChars)
       THEN Match(<<SubSeq(ws, 1, n - 4), ParenCode[ws[n - 3]], <<ws[n - 1], ws[n]>>>>)
       ELSE NoMatch

\* ^([a-z0-9\-]+) \(([0-9\.]+)(?:, ([0-9a-f\:]+))?\) \- ([a-zA-Z]+)\, hosted by
\*  ([a-zA-Z0-9]+) \(((?:rented)|(?:Mullvad-owned))\)$ on line.strip()
ServerLineTail(ws) ==
    /\ Len(ws) = 6
    /\ ws[1] = "-"
    /\ ws[2] \in DOMAIN ProtocolComma
    /\ ws[3] = "hosted"
    /\ ws[4] = "by"
    /\ ws[5] \in ProviderChars
    /\ ws[6] \in DOMAIN OwnershipParen

ParseRelayListServerLine(line) ==
    LET ws == line.toks
        n == Len(ws)
    IN IF /\ n = 8
          /\ ws[1] \in HostnameChars
          /\ ws[2] \in DOMAIN Ipv4Alone
          /\ ServerLineTail(SubSeq(ws, 3, 8))
       THEN Match(<<ws[1], Some(Ipv4Alone[ws[2]]), None, ProtocolComma[ws[4]],
                    ws[7], OwnershipParen[ws[8]]>>)
       ELSE IF /\ n = 9
               /\ ws[1] \in HostnameChars
               /\ ws[2] \in DOMAIN Ipv4Open
               /\ ws[3] \in DOMAIN Ipv6Close
               /\ ServerLineTail(SubSeq(ws, 4, 9))
       THEN Match(<<ws[1], Some(Ipv4Open[ws[2]]), Some(Ipv6Close[ws[3]]),
                    ProtocolComma[ws[5]], ws[8], OwnershipParen[ws[9]]>>)
       ELSE NoMatch

\* Relay as a slip would build it: city_code=country[1]
RelayCodeOfCountry(co, ci, sv) ==
    [country |-> co[1], country_code |-> co[2],
     city |-> ci[1], city_code |-> co[2], location |-> ci[3],
     hostname |-> sv[1], ipv4 |-> sv[2].val, ipv6 |-> sv[3],
     protocol |-> sv[4], provider |-> sv[5], ownership |-> sv[6]]

\* Relay(country=country[0], ..., ownership=ownership)
Relay(co, ci, sv) ==
    [country |-> co[1], country_code |-> co[2],
     city |-> ci[1], city_code |-> ci[2], location |-> ci[3],
     hostname |-> sv[1], ipv4 |-> sv[2].val, ipv6 |-> sv[3],
     protocol |-> sv[4], provider |-> sv[5], ownership |-> sv[6]]

----------------------------------------------------------------------------
(* Words: lower case, substrings, the first ':' *)

\* str.lower() of a word that holds an upper case letter
LowerCase ==
    ("Connected" :> "connected") @@ ("Connecting" :> "connecting") @@
    ("Disconnected" :> "disconnected") @@ ("Disconnecting..." :> "disconnecting...") @@
    ("Sweden" :> "sweden") @@ ("Sweden..." :> "sweden...") @@
    ("Gothenburg," :> "gothenburg,") @@ ("Gothenburg" :> "gothenburg") @@
    ("Albania" :> "albania") @@ ("Tirana" :> "tirana") @@
    ("IPv4:" :> "ipv4:") @@ ("IPv4" :> "ipv4") @@
    ("Position:" :> "position:") @@ ("Position" :> "position") @@
    ("Location" :> "location") @@ ("Relay" :> "relay") @@
    ("Mullvad" :> "mullvad") @@ ("Expires" :> "expires") @@ ("Network" :> "network") @@
    ("WireGuard" :> "wireguard") @@ ("OpenVPN" :> "openvpn") @@ ("iRegister" :> "iregister")

Lower(w) == IF w \in DOMAIN LowerCase THEN LowerCase[w] ELSE w

LowerWords(ws) == [k \in 1..Len(ws) |-> Lower(ws[k])]

LowerText(text) == [k \in 1..Len(text) |-> Line(text[k].tabs, LowerWords(text[k].toks))]

\* The words that hold a string the code looks for inside a word: <<word, string>>
Substrings ==
    {<<"disconnected", "disconnected">>, <<"disconnecting...", "disconnecting">>}

\* "s in w" for a word w
InWord(s, w) == <<w, s>> \in Substrings

\* "s in t" for a string s without white space and the words of a line
InWords(s, ws) == \E k \in 1..Len(ws) : InWord(s, ws[k])

\* "phrase in text" for a phrase of words separated by single spaces; no word of
\* the sample lines ends with the first word of a phrase, or starts with its last
\* word, other than by being that word
InText(phrase, text) ==
    \E l \in 1..Len(text) :
        \E k \in 1..Len(text[l].toks) :
            /\ k + Len(phrase) - 1 <= Len(text[l].toks)
            /\ SubSeq(text[l].toks, k, k + Len(phrase) - 1) = phrase

\* A word that holds ':' : what is before its first ':' and what is after it
ColonSplit ==
    ("IPv4:" :> <<"IPv4", "">>) @@ ("Position:" :> <<"Position", "">>) @@
    ("account:" :> <<"account", "">>) @@ ("at:" :> <<"at", "">>) @@
    ("10:00" :> <<"10", "00">>) @@
    ("2a03:1b20:5:f011::a01f)" :> <<"2a03", "1b20:5:f011::a01f)">>)

HasColon(w) == w \in DOMAIN ColonSplit

\* A string without white space as a sequence of words: the empty string has none
WordsOf(w) == IF w = "" THEN <<>> ELSE <<w>>

----------------------------------------------------------------------------
(* _parse_key_value_output *)

RECURSIVE FirstColon(_, _)
FirstColon(ws, k) ==
    IF k > Len(ws) THEN 0
    ELSE IF HasColon(ws[k]) THEN k
    ELSE FirstColon(ws, k + 1)

\* line.split(":", 1), each part stripped: one part (here <<>>) when the line
\* holds no ':', else <<what is before the first ':', what is after it>>
SplitLine(line) ==
    LET ws == line.toks
        k == FirstColon(ws, 1)
    IN IF k = 0 THEN <<>>
       ELSE <<SubSeq(ws, 1, k - 1) \o WordsOf(ColonSplit[ws[k]][1]),
              WordsOf(ColonSplit[ws[k]][2]) \o SubSeq(ws, k + 1, Len(ws))>>

\* The loop over output.strip().splitlines(), from line k on, with the dict so far
RECURSIVE ParseKeyValueLines(_, _, _, _)
ParseKeyValueLines(lines, k, strict, dict) ==
    IF k > Len(lines) THEN [ok |-> TRUE, dict |-> dict]
    ELSE LET split_line == SplitLine(lines[k])
         IN IF Len(split_line) # 2
            THEN IF strict THEN [ok |-> FALSE]
                 ELSE ParseKeyValueLines(lines, k + 1, strict, dict)
            ELSE ParseKeyValueLines(lines, k + 1, strict,
                     (LowerWords(split_line[1]) :> split_line[2]) @@ dict)

EmptyDict == [key \in {} |-> <<>>]

ParseKeyValueOutput(text, strict) ==
    ParseKeyValueLines(SplitLines(StripText(text)), 1, strict, EmptyDict)

\* dict.get(key, None)
Get(dict, key) == IF key \in DOMAIN dict THEN Some(dict[key]) ELSE None

----------------------------------------------------------------------------
(* status *)

\* [a-zA-Z0-9\-]+
ServerNameChars == HostnameChars \cup WordChars

\* [\w \,\-]+ without the space
LocationChars == WordChars \cup HostnameChars \cup {"Gothenburg,"}

\* A word of LocationChars followed by "..." : the word and what precedes the dots
Ellipsis == ("Sweden..." :> "Sweden")

\* ^((?:Connected)|(?:Connecting)) to ([a-zA-Z0-9\-]+) in ([\w \,\-]+)(?:\.\.\.)?$
StatusPattern(ws) ==
    LET n == Len(ws)
        last == IF ws[n] \in DOMAIN Ellipsis THEN Ellipsis[ws[n]] ELSE ws[n]
        loc == SubSeq(ws, 5, n - 1) \o <<last>>
    IN IF /\ n >= 5
          /\ ws[1] \in {"Connected", "Connecting"}
          /\ ws[2] = "to"
          /\ ws[3] \in ServerNameChars
          /\ ws[4] = "in"
          /\ AllIn(loc, LocationChars)
       THEN Match(<<ws[1], ws[3], loc>>)
       ELSE NoMatch

\* StatusName(value)
StatusName == ("connected" :> "CONNECTED") @@ ("disconnected" :> "DISCONNECTED") @@
              ("connecting" :> "CONNECTING") @@ ("disconnecting" :> "DISCONNECTING")

\* The Status of a tunnel that is down
StatusDown(disconnected, parsed) ==
    [connected |-> FALSE,
     status |-> IF disconnected THEN StatusName["disconnected"] ELSE StatusName["disconnecting"],
     server_name |-> None,
     location |-> None,
     ipv4 |-> Get(parsed, <<"ipv4">>),
     position |-> Get(parsed, <<"position">>)]

\* StatusUp as a slip would build it: connected=True for every match
StatusUpAlwaysConnected(groups, parsed) ==
    [connected |-> TRUE,
     status |-> StatusName[Lower(groups[1])],
     server_name |-> Some(groups[2]),
     location |-> Some(groups[3]),
     ipv4 |-> Get(parsed, <<"ipv4">>),
     position |-> Get(parsed, <<"position">>)]

\* The Status of a first line that matches status_pattern
StatusUp(groups, parsed) ==
    [connected |-> Lower(groups[1]) = "connected",
     status |-> StatusName[Lower(groups[1])],
     server_name |-> Some(groups[2]),
     location |-> Some(groups[3]),
     ipv4 |-> Get(parsed, <<"ipv4">>),
     position |-> Get(parsed, <<"position">>)]

\* StatusStrict as a slip would compute it: strict = not full
StatusStrictOfFullAlone(full, text) == ~full

\* strict = False if full and "location data unavailable" in output.lower() else True
StatusStrict(full, text) ==
    ~(full /\ InText(<<"location", "data", "unavailable">>, LowerText(text)))

\* "disconnected" in tunnel_status.lower(), "disconnecting" in tunnel_status.lower()
TunnelDown(tunnel_status, s) == InWords(s, LowerWords(tunnel_status))

\* What status gives on the text the command printed
StatusResult(full, text) ==
    LET tunnel_status == text[1].toks
        strict == StatusStrict(full, text)
    IN IF Len(text) < 2 THEN Raised("IndexError")
       ELSE LET parsed == ParseKeyValueOutput(Tail(text), strict)
                disconnected == TunnelDown(tunnel_status, "disconnected")
            IN IF ~parsed.ok THEN Raised("FailedToParseOutput")
               ELSE IF disconnected \/ TunnelDown(tunnel_status, "disconnecting")
               THEN Returned(StatusDown(disconnected, parsed.dict))
               ELSE LET m == StatusPattern(tunnel_status)
                    IN IF m.ok THEN Returned(StatusUp(m.groups, parsed.dict))
                       ELSE Raised("FailedToParseOutput")

----------------------------------------------------------------------------
(* get_account and lockdown_mode *)

\* dateutil.parser.parse: the datetime of a text it reads as a date, else ParserError
Dates == (<<"2024-05-01", "10:00">> :>
             [year |-> 2024, month |-> 5, day |-> 1, hour |-> 10, minute |-> 0])

DtParse(ws) == IF ws \in DOMAIN Dates THEN Returned(Dates[ws]) ELSE Raised("ParserError")

\* What get_account gives on the text the command printed
GetAccountResult(text) ==
    LET output_dict == ParseKeyValueOutput(text, TRUE)
    IN IF ~output_dict.ok THEN Raised("FailedToParseOutput")
       ELSE IF <<"mullvad", "account">> \notin DOMAIN output_dict.dict THEN Raised("KeyError")
       ELSE IF <<"expires", "at">> \notin DOMAIN output_dict.dict THEN Raised("KeyError")
       ELSE LET expiration == DtParse(output_dict.dict[<<"expires", "at">>])
            IN IF expiration.kind = "raise" THEN expiration
               ELSE Returned([token |-> output_dict.dict[<<"mullvad", "account">>],
                              expiration |-> expiration.value])

\* bool(s) of a string
Truthy(s) == s # ""

\* What lockdown_mode() gives on the text "mullvad lockdown-mode get" printed
LockdownGetResult(text) ==
    IF InText(<<"traffic", "will", "be", "allowed">>, text) THEN Returned(FALSE)
    ELSE IF Truthy("traffic will be blocked") THEN Returned(TRUE)
    ELSE Raised("FailedToParseOutput")

----------------------------------------------------------------------------
(* Sample lines of "mullvad relay list" *)

CountryA == Line(0, <<"Sweden", "(se)">>)
CountryB == Line(0, <<"Albania", "(al)">>)
CityX == Line(1, <<"Gothenburg", "(got)", "@", "57.70dN,", "11.97dW">>)
CityY == Line(1, <<"Tirana", "(tia)", "@", "41.32dN,", "-19.81dW">>)
Server1 == Line(2, <<"se-got-wg-001", "(185.213.154.68,", "2a03:1b20:5:f011::a01f)", "-",
                     "WireGuard,", "hosted", "by", "31173", "(Mullvad-owned)">>)
Server2 == Line(2, <<"al-tia-001", "(31.171.153.66)", "-", "OpenVPN,", "hosted", "by",
                     "iRegister", "(rented)">>)
TabsOnly == Line(3, <<>>)
DeepServer == Line(3, Server2.toks)
BadCountry == Line(0, <<"Sweden">>)
BadCity == Line(1, <<"Sweden", "(se)">>)
BadServer == Line(2, <<"Sweden", "(se)">>)

RelayLines == {CountryA, CountryB, CityX, CityY, Server1, Server2, EmptyLine, TabsOnly,
               DeepServer, BadCountry, BadCity, BadServer}

RelayOutputs == SeqsUpTo(RelayLines, MaxRelayLines)
SmallRelayOutputs == SeqsUpTo({CountryA, CityX, Server1, EmptyLine, DeepServer}, MaxSmallLines)

(* Sample lines of "mullvad status" *)

ConnectedLine == Line(0, <<"Connected", "to", "se-got-wg-001", "in", "Gothenburg,", "Sweden">>)
ConnectingLine == Line(0, <<"Connecting", "to", "se-got-wg-001", "in", "Sweden...">>)
DisconnectedLine == Line(0, <<"Disconnected">>)
DisconnectingLine == Line(0, <<"Disconnecting...">>)
OddServerLine == Line(0, <<"Connected", "to", "disconnected", "in", "Sweden">>)
Ipv4Line == Line(0, <<"IPv4:", "185.213.154.68">>)
PositionLine == Line(1, <<"Position:", "57.70,", "11.97">>)
UnavailableLine == Line(0, <<"Location", "data", "unavailable">>)
NoColonLine == Line(0, <<"Relay", "offline">>)

StatusLines == {ConnectedLine, ConnectingLine, DisconnectedLine, DisconnectingLine,
                OddServerLine, Ipv4Line, PositionLine, UnavailableLine, NoColonLine,
                EmptyLine, TabsOnly}

StatusOutputs == SeqsUpTo(StatusLines, MaxStatusLines)

(* Sample lines of "mullvad account get" *)

TokenLine == Line(0, <<"Mullvad", "account:", "1234123412341234">>)
ExpiresLine == Line(0, <<"Expires", "at:", "2024-05-01", "10:00">>)
BadExpiresLine == Line(0, <<"Expires", "at:", "never">>)

AccountOutputs ==
    SeqsUpTo({TokenLine, ExpiresLine, BadExpiresLine, NoColonLine, EmptyLine}, MaxAccountLines)

(* Sample lines of "mullvad lockdown-mode get" *)

AllowedLine == Line(0, <<"Network", "traffic", "will", "be", "allowed">>)
BlockedLine == Line(0, <<"Network", "traffic", "will", "be", "blocked">>)

LockdownOutputs == SeqsUpTo({AllowedLine, BlockedLine, NoColonLine, EmptyLine}, MaxSmallLines)

\* What a command whose output is not read may print
AnyOutputs == {<<EmptyLine>>, <<NoColonLine, EmptyLine>>}

----------------------------------------------------------------------------
(* _execute *)

ExitCodes == {0, 1}

\* subprocess.run(cmd, capture_output=True, shell=False, check=True): one
\* invocation of cmd, whose stdout is out; a non-zero exit code raises
\* CalledProcessError
Execute(cmd, out, ec) ==
    /\ invocations' = Append(invocations, cmd)
    /\ output' = out
    /\ exit_code' = ec

ExecuteResult(ec, res) == IF ec # 0 THEN Raised("CalledProcessError") ELSE res

\* No call is under way
Idle == pc = "idle"

\* An operation without a loop is called, run and done in one step
Call(name, a, res) ==
    /\ pc' = "done"
    /\ op' = name
    /\ arg' = a
    /\ result' = res
    /\ UNCHANGED <<idx, country, city, relays>>

NoArg == [type |-> "none"]
BoolArg(b) == [type |-> "bool", val |-> b]

----------------------------------------------------------------------------
(* The operations *)

GetAccount ==
    /\ Idle
    /\ \E out \in AccountOutputs, ec \in ExitCodes :
        /\ Execute(<<"mullvad", "account", "get">>, out, ec)
        /\ Call("get_account", NoArg, ExecuteResult(ec, GetAccountResult(out)))

\* lockdown_mode(new_value) with new_value not None
LockdownModeSet ==
    /\ Idle
    /\ \E new_value \in BOOLEAN, out \in AnyOutputs, ec \in ExitCodes :
        LET policy == IF new_value THEN "on" ELSE "off"
        IN /\ Execute(<<"mullvad", "lockdown-mode", "set", policy>>, out, ec)
           /\ Call("lockdown_mode", BoolArg(new_value), ExecuteResult(ec, Returned(new_value)))

\* lockdown_mode()
LockdownModeGet ==
    /\ Idle
    /\ \E out \in LockdownOutputs, ec \in ExitCodes :
        /\ Execute(<<"mullvad", "lockdown-mode", "get">>, out, ec)
        /\ Call("lockdown_mode", NoArg, ExecuteResult(ec, LockdownGetResult(out)))

StatusCommand(full) ==
    LET location_arg == IF full THEN <<"--location">> ELSE <<>>
    IN <<"mullvad", "status">> \o location_arg

Status ==
    /\ Idle
    /\ \E full \in BOOLEAN, out \in StatusOutputs, ec \in ExitCodes :
        /\ Execute(StatusCommand(full), out, ec)
        /\ Call("status", BoolArg(full), ExecuteResult(ec, StatusResult(full, out)))

\* ConnectionChangeCommand as a slip would build it: "--wait" whatever wait is
ConnectionChangeCommandAlwaysWaits(change_cmd, wait) == <<"mullvad", change_cmd, "--wait">>

ConnectionChangeCommand(change_cmd, wait) ==
    LET wait_param == IF wait THEN <<"--wait">> ELSE <<>>
    IN <<"mullvad", change_cmd>> \o wait_param

\* _connection_change, as connect, disconnect and reconnect call it
ConnectionChange(change_cmd) ==
    /\ Idle
    /\ \E wait \in BOOLEAN, out \in AnyOutputs, ec \in ExitCodes :
        /\ Execute(ConnectionChangeCommand(change_cmd, wait), out, ec)
        /\ Call(change_cmd, BoolArg(wait), ExecuteResult(ec, Returned(None)))

Connect == ConnectionChange("connect")

Disconnect == ConnectionChange("disconnect")

Reconnect == ConnectionChange("reconnect")

UpdateRelays ==
    /\ Idle
    /\ \E out \in AnyOutputs, ec \in ExitCodes :
        /\ Execute(<<"mullvad", "relay", "update">>, out, ec)
        /\ Call("update_relays", NoArg, ExecuteResult(ec, Returned(None)))

\* What set_relay may be given: a Relay, a str, or a value that is neither
SampleRelay == Relay(ParseRelayListCountryLine(CountryA).groups,
                     ParseRelayListCityLine(CityX).groups,
                     ParseRelayListServerLine(Server1).groups)

RelayArgs == {[type |-> "Relay", relay |-> SampleRelay],
              [type |-> "str", val |-> "al-tia-001"],
              [type |-> "int", val |-> "7"],
              [type |-> "NoneType", val |-> "None"]}

\* case Relay(hostname=hostname) | str(hostname)
SetRelayMatches(relay) == relay.type \in {"Relay", "str"}

SetRelayHostname(relay) == IF relay.type = "Relay" THEN relay.relay.hostname ELSE relay.val

SetRelay ==
    /\ Idle
    /\ \E relay \in RelayArgs :
        IF SetRelayMatches(relay)
        THEN \E out \in AnyOutputs, ec \in ExitCodes :
                /\ Execute(<<"mullvad", "relay", "set", "location", SetRelayHostname(relay)>>,
                           out, ec)
                /\ Call("set_relay", relay, ExecuteResult(ec, Returned(None)))
        ELSE /\ Call("set_relay", relay, Raised("MullvadError"))
             /\ UNCHANGED <<invocations, output, exit_code>>

----------------------------------------------------------------------------
(* relay_list *)

RelayListCall(outs) ==
    /\ pc = "idle"
    /\ \E out \in outs, ec \in ExitCodes :
          /\ Execute(<<"mullvad", "relay", "list">>, out, ec)
          /\ IF ec # 0
             THEN pc' = "done" /\ result' = Raised("CalledProcessError")
             ELSE pc' = "relay_loop" /\ result' = NoResult
    /\ op' = "relay_list"
    /\ arg' = NoArg
    /\ idx' = 1
    /\ country' = None
    /\ city' = None
    /\ relays' = <<>>

\* for line in output.splitlines()
RelayLine == SplitLines(output)[idx]

InRelayLoop == pc = "relay_loop" /\ idx <= Len(SplitLines(output))

\* raise FailedToParseOutput(...)
RelayRaise ==
    /\ pc' = "done"
    /\ result' = Raised("FailedToParseOutput")
    /\ UNCHANGED <<op, arg, output, exit_code, invocations, idx, country, city, relays>>

\* The next line
RelayContinue ==
    /\ idx' = idx + 1
    /\ UNCHANGED <<pc, op, arg, output, exit_code, invocations, result>>

\* if not line.strip(): continue
RelayBlankLine ==
    /\ InRelayLoop
    /\ IsBlank(RelayLine)
    /\ RelayContinue
    /\ UNCHANGED <<country, city, relays>>

\* case 0
RelayCountryLine ==
    /\ InRelayLoop
    /\ ~IsBlank(RelayLine)
    /\ LeadingTabs(RelayLine) = 0
    /\ LET m == ParseRelayListCountryLine(RelayLine)
       IN IF m.ok
          THEN /\ country' = Some(m.groups)
               /\ RelayContinue
               /\ UNCHANGED <<city, relays>>
          ELSE RelayRaise

\* case 1
RelayCityLine ==
    /\ InRelayLoop
    /\ ~IsBlank(RelayLine)
    /\ LeadingTabs(RelayLine) = 1
    /\ LET m == ParseRelayListCityLine(RelayLine)
       IN IF m.ok
          THEN /\ city' = Some(m.groups)
               /\ RelayContinue
               /\ UNCHANGED <<country, relays>>
          ELSE RelayRaise

\* RelayServerLine as a slip would have it: a server line without a country or a
\* city before it is passed over
RelayServerLineSkipsOrphan ==
    /\ InRelayLoop
    /\ ~IsBlank(RelayLine)
    /\ LeadingTabs(RelayLine) = 2
    /\ LET m == ParseRelayListServerLine(RelayLine)
       IN IF ~m.ok THEN RelayRaise
          ELSE IF country = None \/ city = None
          THEN RelayContinue /\ UNCHANGED <<country, city, relays>>
          ELSE /\ relays' = Append(relays, Relay(country.val, city.val, m.groups))
               /\ RelayContinue
               /\ UNCHANGED <<country, city>>

\* case 2
RelayServerLine ==
    /\ InRelayLoop
    /\ ~IsBlank(RelayLine)
    /\ LeadingTabs(RelayLine) = 2
    /\ LET m == ParseRelayListServerLine(RelayLine)
       IN IF ~m.ok THEN RelayRaise
          ELSE IF country = None THEN RelayRaise
          ELSE IF city = None THEN RelayRaise
          ELSE /\ relays' = Append(relays, Relay(country.val, city.val, m.groups))
               /\ RelayContinue
               /\ UNCHANGED <<country, city>>

\* RelayOtherLine as a slip would have it: a deeper line is passed over
RelayOtherLineSkipped ==
    /\ InRelayLoop
    /\ ~IsBlank(RelayLine)
    /\ LeadingTabs(RelayLine) \notin {0, 1, 2}
    /\ RelayContinue
    /\ UNCHANGED <<country, city, relays>>

\* case _
RelayOtherLine ==
    /\ InRelayLoop
    /\ ~IsBlank(RelayLine)
    /\ LeadingTabs(RelayLine) \notin {0, 1, 2}
    /\ RelayRaise

\* return relays
RelayListReturn ==
    /\ pc = "relay_loop"
    /\ idx > Len(SplitLines(output))
    /\ pc' = "done"
    /\ result' = Returned(relays)
    /\ UNCHANGED <<op, arg, output, exit_code, invocations, idx, country, city, relays>>

RelayListLoop ==
    \/ RelayBlankLine
    \/ RelayCountryLine
    \/ RelayCityLine
    \/ RelayServerLine
    \/ RelayOtherLine
    \/ RelayListReturn

----------------------------------------------------------------------------
(* The specifications *)

Init ==
    /\ pc = "idle"
    /\ op = "none"
    /\ arg = NoArg
    /\ output = <<EmptyLine>>
    /\ exit_code = 0
    /\ invocations = <<>>
    /\ result = NoResult
    /\ idx = 1
    /\ country = None
    /\ city = None
    /\ relays = <<>>

\* The call is over and the caller may call again: nothing is kept between calls
Return ==
    /\ pc = "done"
    /\ pc' = "idle"
    /\ op' = "none"
    /\ arg' = NoArg
    /\ output' = <<EmptyLine>>
    /\ exit_code' = 0
    /\ invocations' = <<>>
    /\ result' = NoResult
    /\ idx' = 1
    /\ country' = None
    /\ city' = None
    /\ relays' = <<>>

\* Every operation; relay_list on short outputs
Next ==
    \/ GetAccount
    \/ LockdownModeSet
    \/ LockdownModeGet
    \/ Status
    \/ Connect
    \/ Disconnect
    \/ Reconnect
    \/ UpdateRelays
    \/ SetRelay
    \/ RelayListCall(SmallRelayOutputs)
    \/ RelayListLoop
    \/ Return

Spec == Init /\ [][Next]_vars

\* relay_list alone, on longer outputs
NextRelay == RelayListCall(RelayOutputs) \/ RelayListLoop \/ Return

SpecRelay == Init /\ [][NextRelay]_vars


----------------------------------------------------------------------------
(* What the properties below speak of *)

\* A call of operation o has ended and the command had exit code 0
Ended(o) == pc = "done" /\ op = o /\ exit_code = 0

\* The lines of a relay list that are server lines: not blank, two leading tabs
ServerPositions(lines) == {i \in 1..Len(lines) : ~IsBlank(lines[i]) /\ lines[i].tabs = 2}

\* The place of the k-th server line
NthServerLine(lines, k) ==
    CHOOSE i \in ServerPositions(lines) :
        Cardinality({j \in ServerPositions(lines) : j <= i}) = k

\* The place of the last non-blank line with t leading tabs before place p; 0 if none
LastLineBefore(lines, p, t) ==
    LET S == {i \in 1..(p - 1) : ~IsBlank(lines[i]) /\ lines[i].tabs = t}
    IN IF S = {} THEN 0 ELSE CHOOSE i \in S : \A j \in S : j <= i

\* A non-blank line of a relay list is well formed: at most two leading tabs, and
\* the text of a country, city or server line according to them
WellFormedRelayLine(line) ==
    /\ line.tabs <= 2
    /\ line.tabs = 0 => ParseRelayListCountryLine(line).ok
    /\ line.tabs = 1 => ParseRelayListCityLine(line).ok
    /\ line.tabs = 2 => ParseRelayListServerLine(line).ok

ServerFields(r) == <<r.hostname, Some(r.ipv4), r.ipv6, r.protocol, r.provider, r.ownership>>

\* A well-formed server line with no country line, or no city line, before it
OrphanServerLine(lines) ==
    \E p \in ServerPositions(lines) :
        /\ ParseRelayListServerLine(lines[p]).ok
        /\ LastLineBefore(lines, p, 0) = 0 \/ LastLineBefore(lines, p, 1) = 0

\* The lines of a status output after the first one
LinesAfterFirst(text) == IF Len(text) < 2 THEN <<>> ELSE SplitLines(Tail(text))

NoColon(line) == ~\E k \in 1..Len(line.toks) : HasColon(line.toks[k])

UnavailableText(text) == InText(<<"location", "data", "unavailable">>, LowerText(text))

\* The value of the last "key: value" line among lines 1..n whose key is key, or None
RECURSIVE LastValueOf(_, _, _)
LastValueOf(lines, n, key) ==
    IF n = 0 THEN None
    ELSE IF ~NoColon(lines[n]) /\ LowerWords(SplitLine(lines[n])[1]) = key
    THEN Some(SplitLine(lines[n])[2])
    ELSE LastValueOf(lines, n - 1, key)

----------------------------------------------------------------------------
(* C1: every parsing operation (status, get_account, relay_list, lockdown_mode
   without argument), on every text the command prints with exit code 0, returns a
   record or raises an exception of the MullvadError family. *)
C1_SingleExceptionFamily ==
    (/\ pc = "done"
     /\ exit_code = 0
     /\ op \in {"status", "get_account", "relay_list"} \/ (op = "lockdown_mode" /\ arg.type = "none"))
    => \/ result.kind = "return"
       \/ result.kind = "raise" /\ IsMullvadError(result.exc)

(* C2: lockdown_mode() returns False only when the output holds "traffic will be
   allowed", True only when it holds "traffic will be blocked", and raises
   FailedToParseOutput when it holds neither. *)
C2_LockdownRaisesOnMismatch ==
    (Ended("lockdown_mode") /\ arg.type = "none")
    => LET allowed == InText(<<"traffic", "will", "be", "allowed">>, output)
           blocked == InText(<<"traffic", "will", "be", "blocked">>, output)
       IN /\ (result.kind = "return" /\ result.value = FALSE) => allowed
          /\ (result.kind = "return" /\ result.value = TRUE) => blocked
          /\ (~allowed /\ ~blocked) => result = Raised("FailedToParseOutput")

(* C3: every public operation runs the external binary exactly once per call, with
   an argument vector that starts with "mullvad" and is fixed by the operation and
   its arguments; set_relay with a value that is neither a Relay nor a str raises
   MullvadError without running anything. *)
C3_FixedArgumentVectors ==
    /\ \A k \in 1..Len(invocations) : invocations[k][1] = "mullvad"
    /\ pc = "relay_loop" => invocations = <<<<"mullvad", "relay", "list">>>>
    /\ pc = "done" =>
         /\ op = "status" =>
              invocations = <<IF arg.val THEN <<"mullvad", "status", "--location">>
                              ELSE <<"mullvad", "status">>>>
         /\ op \in {"connect", "disconnect", "reconnect"} =>
              invocations = <<IF arg.val THEN <<"mullvad", op, "--wait">>
                              ELSE <<"mullvad", op>>>>
         /\ (op = "lockdown_mode" /\ arg.type = "bool") =>
              invocations = <<<<"mullvad", "lockdown-mode", "set",
                                IF arg.val THEN "on" ELSE "off">>>>
         /\ (op = "lockdown_mode" /\ arg.type = "none") =>
              invocations = <<<<"mullvad", "lockdown-mode", "get">>>>
         /\ op = "get_account" => invocations = <<<<"mullvad", "account", "get">>>>
         /\ op = "relay_list" => invocations = <<<<"mullvad", "relay", "list">>>>
         /\ op = "update_relays" => invocations = <<<<"mullvad", "relay", "update">>>>
         /\ (op = "set_relay" /\ arg.type \in {"Relay", "str"}) =>
              /\ Len(invocations) = 1
              /\ SubSeq(invocations[1], 1, 4) = <<"mullvad", "relay", "set", "location">>
         /\ (op = "set_relay" /\ arg.type \notin {"Relay", "str"}) =>
              /\ invocations = <<>>
              /\ result = Raised("MullvadError")

\* connect(wait=False) has run ["mullvad", "connect"]
C3_Witness ==
    /\ pc = "done"
    /\ op = "connect"
    /\ arg.val = FALSE
    /\ invocations = <<<<"mullvad", "connect">>>>

(* C4: relay_list raises FailedToParseOutput or returns exactly one Relay per
   non-blank line with exactly two leading tabs, in the order of those lines; on a
   return no non-blank line has three or more leading tabs and none was passed
   over. *)
C4_OneRelayPerServerLine ==
    Ended("relay_list") =>
       LET lines == SplitLines(output)
       IN \/ result = Raised("FailedToParseOutput")
          \/ /\ result.kind = "return"
             /\ Len(result.value) = Cardinality(ServerPositions(lines))
             /\ \A k \in 1..Len(result.value) :
                   ServerFields(result.value[k]) =
                       ParseRelayListServerLine(lines[NthServerLine(lines, k)]).groups
             /\ \A i \in 1..Len(lines) : ~IsBlank(lines[i]) => WellFormedRelayLine(lines[i])

\* Two relays of two server lines are returned
C4_Witness ==
    /\ Ended("relay_list")
    /\ result.kind = "return"
    /\ Len(result.value) = 2
    /\ result.value[1].hostname # result.value[2].hostname

(* C5: every Relay that relay_list has appended carries the country name and code
   of the last country line before its server line and the city name, code and
   location of the last city line before it, in every later state of the call and
   in the list returned. *)
C5_RelayCarriesPrecedingCountryAndCity ==
    op = "relay_list" =>
       LET lines == SplitLines(output)
       IN /\ \A k \in 1..Len(relays) :
                LET p == NthServerLine(lines, k)
                    c == LastLineBefore(lines, p, 0)
                    t == LastLineBefore(lines, p, 1)
                IN /\ c > 0
                   /\ t > 0
                   /\ <<relays[k].country, relays[k].country_code>> =
                          ParseRelayListCountryLine(lines[c]).groups
                   /\ <<relays[k].city, relays[k].city_code, relays[k].location>> =
                          ParseRelayListCityLine(lines[t]).groups
          /\ (pc = "done" /\ result.kind = "return") => result.value = relays

\* A Relay was appended and the loop has since read a line of another country
C5_Witness ==
    /\ op = "relay_list"
    /\ Len(relays) >= 1
    /\ LET lines == SplitLines(output)
       IN \E i \in (NthServerLine(lines, 1) + 1)..(idx - 1) :
             /\ ~IsBlank(lines[i])
             /\ lines[i].tabs = 0
             /\ ParseRelayListCountryLine(lines[i]).ok
             /\ ParseRelayListCountryLine(lines[i]).groups[1] # relays[1].country

(* C6: a well-formed server line before any country line, or before any city line,
   makes relay_list raise FailedToParseOutput; a raise carries no list, and every
   Relay returned has a country and a city. *)
C6_OrphanServerLineRaises ==
    Ended("relay_list") =>
       /\ OrphanServerLine(SplitLines(output)) => result = Raised("FailedToParseOutput")
       /\ result.kind = "raise" => DOMAIN result = {"kind", "exc"}
       /\ result.kind = "return" =>
             \A k \in 1..Len(result.value) :
                 result.value[k].country # <<>> /\ result.value[k].city # <<>>

\* An output whose lines are all well formed, with a server line that has a country
\* before it and no city, has made the call raise
C6_Witness ==
    /\ Ended("relay_list")
    /\ result = Raised("FailedToParseOutput")
    /\ LET lines == SplitLines(output)
       IN /\ \A i \in 1..Len(lines) : ~IsBlank(lines[i]) => WellFormedRelayLine(lines[i])
          /\ \E p \in ServerPositions(lines) :
                LastLineBefore(lines, p, 0) > 0 /\ LastLineBefore(lines, p, 1) = 0

(* C7, as stated: when full is False, or the output does not hold "location data
   unavailable", any line after the first that has no ':' makes status raise
   FailedToParseOutput. *)
C7_AnyLineWithoutColonRaises ==
    (/\ Ended("status")
     /\ ~(arg.val /\ UnavailableText(output))
     /\ \E i \in 1..Len(LinesAfterFirst(output)) : NoColon(LinesAfterFirst(output)[i]))
    => result = Raised("FailedToParseOutput")

(* C7, amended: when full is False, or the output does not hold "location data
   unavailable", any line after the first that has no ':' and is not blank makes
   status raise FailedToParseOutput, whatever the first line; only when full is
   True and the output holds that text does status return on such a line, and then
   the "key: value" lines still give ipv4 and position. *)
C7_NonBlankLineWithoutColonRaises ==
    Ended("status") =>
       LET rest == LinesAfterFirst(output)
           bad == \E i \in 1..Len(rest) : NoColon(rest[i]) /\ ~IsBlank(rest[i])
           lenient == arg.val /\ UnavailableText(output)
       IN /\ (bad /\ ~lenient) => result = Raised("FailedToParseOutput")
          /\ (bad /\ result.kind = "return") => lenient
          /\ (lenient /\ result.kind = "return") =>
                /\ result.value.ipv4 = LastValueOf(rest, Len(rest), <<"ipv4">>)
                /\ result.value.position = LastValueOf(rest, Len(rest), <<"position">>)

\* status(full=True) has raised on a non-blank line without ':' under a first line
\* that reports a connected tunnel, the output not holding "location data unavailable"
C7_Witness ==
    /\ Ended("status")
    /\ arg.val = TRUE
    /\ ~UnavailableText(output)
    /\ StatusPattern(output[1].toks).ok
    /\ \E i \in 1..Len(LinesAfterFirst(output)) :
          NoColon(LinesAfterFirst(output)[i]) /\ ~IsBlank(LinesAfterFirst(output)[i])
    /\ result = Raised("FailedToParseOutput")

(* C8: in every list relay_list returns, the city line that gave a Relay its city
   comes after the country line that gave it its country. *)
C8_CityListedUnderCountry ==
    (Ended("relay_list") /\ result.kind = "return") =>
       LET lines == SplitLines(output)
       IN \A k \in 1..Len(result.value) :
             LET p == NthServerLine(lines, k)
             IN LastLineBefore(lines, p, 1) > LastLineBefore(lines, p, 0)

(* C9: whenever the first line of the output matches "(Connected|Connecting) to
   <server> in <location>", the Status that status returns has status CONNECTED or
   CONNECTING respectively, with server_name and location from that line. *)
C9_ConnectedFromFirstLine ==
    (/\ Ended("status")
     /\ result.kind = "return"
     /\ StatusPattern(output[1].toks).ok)
    => LET g == StatusPattern(output[1].toks).groups
       IN /\ result.value.status = (IF g[1] = "Connected" THEN "CONNECTED" ELSE "CONNECTING")
          /\ result.value.server_name = Some(g[2])
          /\ result.value.location = Some(g[3])

(* C10: every Status returned is consistent: connected is True exactly when status
   is CONNECTED; server_name and location are both None when status is DISCONNECTED
   or DISCONNECTING, and both non-empty strings when it is CONNECTED or CONNECTING. *)
C10_StatusConsistent ==
    (pc = "done" /\ op = "status" /\ result.kind = "return") =>
       LET s == result.value
       IN /\ s.connected <=> s.status = "CONNECTED"
          /\ s.status \in {"CONNECTED", "CONNECTING", "DISCONNECTED", "DISCONNECTING"}
          /\ s.status \in {"DISCONNECTED", "DISCONNECTING"} =>
                s.server_name = None /\ s.location = None
          /\ s.status \in {"CONNECTED", "CONNECTING"} =>
                /\ ~s.server_name.isNone
                /\ s.server_name.val # ""
                /\ ~s.location.isNone
                /\ s.location.val # <<>>

\* A Status of a connecting tunnel was returned
C10_Witness ==
    /\ pc = "done"
    /\ op = "status"
    /\ result.kind = "return"
    /\ result.value.status = "CONNECTING"
    /\ ~result.value.connected

====
